---- MODULE Spec2Model ----
(***************************************************************************)
(* Model of the two offline checkers of the repository:                    *)
(*   src/audit_valency.py           analyze_logs  (topology auditor)       *)
(*   src/scripts/physics_verifier.py              (physics diagnostic)     *)
(*                                                                         *)
(* Python floats are modelled bit for bit as IEEE 754 binary64 values:     *)
(* every operation rounds as the interpreter does.                         *)
(* Printed text is modelled as a record                                    *)
(* [text |-> template, args |-> formatted arguments]; templates are        *)
(* written in ASCII.                                                       *)
(***************************************************************************)
EXTENDS Integers, Sequences, FiniteSets, TLC

VARIABLES
    pc,            \* position of the running script / function
    out,           \* lines printed so far
    \* ---- audit_valency.analyze_logs
    lines,         \* lines of the log file read so far
    connections,   \* defaultdict(list): parent id -> list of child ids
    parent_of,     \* dict: child id -> parent id
    violations,    \* list of violation texts
    \* ---- physics_verifier (script)
    atoms,         \* list of Atom
    step,          \* loop variable of `for step in range(300)`
    bi,            \* number of bonds already solved in this step
    ai,            \* number of atoms already updated in this step
    gap,           \* gap measured in the current step
    min_gap,       \* tracked minimum gap
    final_dist,    \* final_dist after the loop
    final_gap,     \* final_gap after the loop
    \* ---- solve_bond / Atom.update on one pair
    atoms0,        \* the pair as it was passed in
    ret,           \* return value of solve_bond ("none" before the call)
    raised         \* TRUE when the call raised ZeroDivisionError

vars == <<pc, out, lines, connections, parent_of, violations, atoms, step, bi,
          ai, gap, min_gap, final_dist, final_gap, atoms0, ret, raised>>

auditVars == <<lines, connections, parent_of, violations>>
simVars   == <<step, bi, gap, min_gap, final_dist, final_gap>>
pairVars  == <<atoms0, ret, raised>>

(***************************************************************************)
(* Unsigned integers of any size.  The integers of TLC are 32-bit, so      *)
(* the 53-bit significand of a float and the wider intermediate results    *)
(* are sequences of 14-bit limbs, least significant first, with no zero    *)
(* limb at the top; the empty sequence is 0.                               *)
(***************************************************************************)
LimbBits == 14
Base     == 16384

Abs(i) == IF i < 0 THEN -i ELSE i
Sgn(i) == IF i < 0 THEN -1 ELSE IF i > 0 THEN 1 ELSE 0
Max(i, j) == IF i < j THEN j ELSE i
Min(i, j) == IF i < j THEN i ELSE j

\* number of bits of k >= 0
RECURSIVE BitLen(_)
BitLen(k) == IF k = 0 THEN 0 ELSE 1 + BitLen(k \div 2)

\* number of zero bits at the low end of k > 0
RECURSIVE LowZeros(_)
LowZeros(k) == IF k % 2 = 1 THEN 0 ELSE 1 + LowZeros(k \div 2)

Lo(a)   == IF a = <<>> THEN 0 ELSE a[1]
Rest(a) == IF a = <<>> THEN <<>> ELSE Tail(a)

RECURSIVE Zeros(_)
Zeros(n) == IF n <= 0 THEN <<>> ELSE <<0>> \o Zeros(n - 1)

RECURSIVE Strip(_)
Strip(a) ==
    IF a = <<>> THEN <<>>
    ELSE IF a[Len(a)] = 0 THEN Strip(SubSeq(a, 1, Len(a) - 1)) ELSE a

RECURSIVE BFromInt(_)
BFromInt(n) == IF n = 0 THEN <<>> ELSE <<n % Base>> \o BFromInt(n \div Base)

RECURSIVE BToInt(_)
BToInt(a) == IF a = <<>> THEN 0 ELSE a[1] + Base * BToInt(Tail(a))

\* a + b + c for a carry c
RECURSIVE BAddC(_, _, _)
BAddC(a, b, c) ==
    IF a = <<>> /\ b = <<>> THEN BFromInt(c)
    ELSE <<(Lo(a) + Lo(b) + c) % Base>>
         \o BAddC(Rest(a), Rest(b), (Lo(a) + Lo(b) + c) \div Base)

BAdd(a, b) == BAddC(a, b, 0)

\* a - b - c for a borrow c and a >= b + c, limbs not stripped
RECURSIVE BSubC(_, _, _)
BSubC(a, b, c) ==
    IF a = <<>> THEN <<>>
    ELSE <<(Lo(a) - Lo(b) - c + Base) % Base>>
         \o BSubC(Rest(a), Rest(b), IF Lo(a) - Lo(b) - c < 0 THEN 1 ELSE 0)

BSub(a, b) == Strip(BSubC(a, b, 0))

\* the sign of a - b, for a and b of the same length, from limb i downwards
RECURSIVE BCmpFrom(_, _, _)
BCmpFrom(a, b, i) ==
    IF i = 0 THEN 0
    ELSE IF a[i] # b[i] THEN Sgn(a[i] - b[i]) ELSE BCmpFrom(a, b, i - 1)

BCmp(a, b) ==
    IF Len(a) # Len(b) THEN Sgn(Len(a) - Len(b)) ELSE BCmpFrom(a, b, Len(a))

\* a * k + c for 0 <= k, c < 2^16
RECURSIVE BMulSmallC(_, _, _)
BMulSmallC(a, k, c) ==
    IF a = <<>> THEN BFromInt(c)
    ELSE <<(a[1] * k + c) % Base>>
         \o BMulSmallC(Tail(a), k, (a[1] * k + c) \div Base)

BMulSmall(a, k) == Strip(BMulSmallC(a, k, 0))

RECURSIVE BMul(_, _)
BMul(a, b) ==
    IF a = <<>> \/ b = <<>> THEN <<>>
    ELSE BAdd(BMulSmall(a, b[1]), Strip(<<0>> \o BMul(a, Tail(b))))

\* a * 2^k
BShl(a, k) ==
    IF a = <<>> THEN <<>>
    ELSE Zeros(k \div LimbBits) \o BMulSmall(a, 2 ^ (k % LimbBits))

\* a \div 2^r for 0 <= r < LimbBits, limbs not stripped
RECURSIVE BShrBits(_, _)
BShrBits(a, r) ==
    IF a = <<>> THEN <<>>
    ELSE <<(a[1] \div (2 ^ r)) + (Lo(Tail(a)) % (2 ^ r)) * (2 ^ (LimbBits - r))>>
         \o BShrBits(Tail(a), r)

\* a \div 2^k
BShr(a, k) ==
    IF k \div LimbBits >= Len(a) THEN <<>>
    ELSE Strip(BShrBits(SubSeq(a, (k \div LimbBits) + 1, Len(a)), k % LimbBits))

\* bit i of a
BBit(a, i) ==
    IF i < 0 \/ i \div LimbBits >= Len(a) THEN 0
    ELSE (a[(i \div LimbBits) + 1] \div (2 ^ (i % LimbBits))) % 2

\* a % 2^k = 0
BLowZero(a, k) ==
    /\ \A i \in 1..Min(k \div LimbBits, Len(a)) : a[i] = 0
    /\ k \div LimbBits < Len(a) => a[(k \div LimbBits) + 1] % (2 ^ (k % LimbBits)) = 0

\* number of bits of a
BLen(a) == IF a = <<>> THEN 0 ELSE (Len(a) - 1) * LimbBits + BitLen(a[Len(a)])

\* number of zero bits at the low end of a # 0
RECURSIVE BLowZeros(_)
BLowZeros(a) ==
    IF a[1] = 0 THEN LimbBits + BLowZeros(Tail(a)) ELSE LowZeros(a[1])

\* the largest k in lo..hi with d * k <= r, given d * lo <= r
RECURSIVE BDigitIn(_, _, _, _)
BDigitIn(r, d, lo, hi) ==
    IF lo >= hi THEN lo
    ELSE IF BCmp(BMulSmall(d, (lo + hi + 1) \div 2), r) <= 0
         THEN BDigitIn(r, d, (lo + hi + 1) \div 2, hi)
         ELSE BDigitIn(r, d, lo, ((lo + hi + 1) \div 2) - 1)

\* limb i of a, 0 above the top
Limb(a, i) == IF i <= Len(a) THEN a[i] ELSE 0

\* r \div d for r < d * Base: with the two limbs r2 of r at and above the
\* top limb d1 of d, the quotient is at least r2 \div (d1 + 1) and at most
\* (r2 + 1) \div d1
BDigit(r, d) ==
    BDigitIn(r, d,
        (Limb(r, Len(d) + 1) * Base + Limb(r, Len(d))) \div (d[Len(d)] + 1),
        Min(Base - 1,
            (Limb(r, Len(d) + 1) * Base + Limb(r, Len(d)) + 1) \div d[Len(d)]))

\* the quotient qr.q of the lower limbs with the limb k put on top
BDivPut(qr, k) == [q |-> qr.q \o <<k>>, r |-> qr.r]

\* long division, limb by limb: with the remainder r so far, the limbs
\* i, i - 1, ..., 1 of n are brought down; k is the next limb of the quotient
RECURSIVE BDivLimbs(_, _, _, _)
RECURSIVE BDivStep(_, _, _, _, _)
BDivStep(n, d, i, r, k) ==
    BDivPut(BDivLimbs(n, d, i - 1, BSub(r, BMulSmall(d, k))), k)

BDivDown(n, d, i, r) == BDivStep(n, d, i, r, BDigit(r, d))

BDivLimbs(n, d, i, r) ==
    IF i = 0 THEN [q |-> <<>>, r |-> r]
    ELSE BDivDown(n, d, i, Strip(<<n[i]>> \o r))

BDivStrip(qr) == [q |-> Strip(qr.q), r |-> qr.r]

\* quotient and remainder of n by d # 0
BDivMod(n, d) == BDivStrip(BDivLimbs(n, d, Len(n), <<>>))

\* floor of the square root of k, lo <= root <= hi, by bisection
RECURSIVE ISqrtIn(_, _, _)
ISqrtIn(k, lo, hi) ==
    IF lo = hi THEN lo
    ELSE IF ((lo + hi + 1) \div 2) * ((lo + hi + 1) \div 2) <= k
         THEN ISqrtIn(k, (lo + hi + 1) \div 2, hi)
         ELSE ISqrtIn(k, lo, ((lo + hi + 1) \div 2) - 1)

\* Newton's iteration for the square root of n from above: the next value
\* y = (x + n \div x) \div 2 is below x until x is the floor of the root
RECURSIVE BNewton(_, _)
BNewtonNext(n, x, y) == IF BCmp(y, x) >= 0 THEN x ELSE BNewton(n, y)

BNewton(n, x) == BNewtonNext(n, x, BShr(BAdd(x, BDivMod(n, x).q), 1))

\* a first value not below the root of n: with k the top bits of n above
\* the 2 j lowest (k < 2^28), the root of n is below (root of k + 1) * 2^j
BSqrtFirst(n, j) ==
    BShl(BFromInt(ISqrtIn(BToInt(BShr(n, 2 * j)), 0, Base) + 1), j)

BSqrtRoot(n) == BNewton(n, BSqrtFirst(n, Max(0, (BLen(n) - 27) \div 2)))

BSqrtWith(n, q) == [q |-> q, r |-> BSub(n, BMul(q, q))]

\* floor of the square root of n # 0, and the remainder n - q * q
BSqrtRem(n) == BSqrtWith(n, BSqrtRoot(n))

\* the quotient qr.q of the lower limbs with the digit d put on top
BDivSmallPut(qr, d) == [q |-> qr.q \o <<d>>, r |-> qr.r]

\* quotient and remainder of r * Base^i + (the lowest i limbs of a) by k
RECURSIVE BDivSmallFrom(_, _, _, _)
BDivSmallFrom(a, k, i, r) ==
    IF i = 0 THEN [q |-> <<>>, r |-> r]
    ELSE BDivSmallPut(BDivSmallFrom(a, k, i - 1, (r * Base + a[i]) % k),
                      (r * Base + a[i]) \div k)

BDivSmallStrip(qr) == [q |-> Strip(qr.q), r |-> qr.r]

\* quotient and remainder of a by k, 0 < k < 2^16
BDivSmall(a, k) == BDivSmallStrip(BDivSmallFrom(a, k, Len(a), 0))

(***************************************************************************)
(* Python float: IEEE 754 binary64.  A finite float is                     *)
(* [s |-> sign bit, m |-> significand, e |-> exponent] with value          *)
(* (-1)^s * m * 2^e, m odd and below 2^53, e >= -1074; a zero has m = 0    *)
(* and e = 0 and keeps its sign.  +, -, *, / and math.sqrt round the exact *)
(* result to the nearest float, ties to the even significand.  Infinities  *)
(* and NaN are outside the model: results stay below 2^1024.               *)
(***************************************************************************)
Precision == 53
MinExp    == -1074

FZero(s)  == [s |-> s, m |-> <<>>, e |-> 0]
IsZero(x) == x.m = <<>>

\* the float (-1)^s * m * 2^e for m that needs no rounding
Pack(s, m, e) ==
    IF m = <<>> THEN FZero(s)
    ELSE [s |-> s, m |-> BShr(m, BLowZeros(m)), e |-> e + BLowZeros(m)]

\* n / 2^k rounded to an integer: up when the first bit cut off is set and
\* either a lower bit is (or the exact result has more below: sticky), or q
\* is odd (a tie)
RoundCut(s, n, e, sticky, k) ==
    IF k <= 0 THEN Pack(s, n, e)
    ELSE IF BBit(n, k - 1) = 1
            /\ (sticky \/ ~BLowZero(n, k - 1) \/ BBit(n, k) = 1)
         THEN Pack(s, BAdd(BShr(n, k), <<1>>), e + k)
         ELSE Pack(s, BShr(n, k), e + k)

\* the float nearest to (-1)^s * n * 2^e (sticky: the exact value is
\* slightly above n * 2^e): Precision bits are kept, fewer below 2^-1022
Round(s, n, e, sticky) ==
    RoundCut(s, n, e, sticky, Max(BLen(n) - Precision, MinExp - e))

\* float(i) for an int i
Float(i) == Pack(IF i < 0 THEN 1 ELSE 0, BFromInt(Abs(i)), 0)
Zero     == FZero(0)

FNeg(x) == [x EXCEPT !.s = 1 - x.s]
FAbs(x) == [x EXCEPT !.s = 0]

\* (-1)^sx * a * 2^e + (-1)^sy * b * 2^e for a, b # 0, c the sign of a - b;
\* an exact zero sum is +0.0
AddSigned(sx, a, sy, b, e, c) ==
    IF sx = sy THEN Round(sx, BAdd(a, b), e, FALSE)
    ELSE IF c = 0 THEN FZero(0)
    ELSE IF c > 0 THEN Round(sx, BSub(a, b), e, FALSE)
                  ELSE Round(sy, BSub(b, a), e, FALSE)

AddAligned(sx, a, sy, b, e) == AddSigned(sx, a, sy, b, e, BCmp(a, b))

\* the exponent of the top bit of x # 0, plus one
Top(x) == x.e + BLen(x.m)

\* x + y for x, y # 0 and y not far below x
AddNear(x, y) ==
    AddAligned(x.s, BShl(x.m, x.e - Min(x.e, y.e)),
               y.s, BShl(y.m, y.e - Min(x.e, y.e)), Min(x.e, y.e))

\* a term more than Precision + 10 bits below the last bit of x moves the
\* sum like any smaller non-zero term of its sign
FarBelow == 2 * Precision + 10

\* x + y for x, y # 0 and |x| >= |y| in exponent
AddOrdered(x, y) ==
    IF Top(x) - Top(y) > FarBelow
    THEN AddNear(x, [s |-> y.s, m |-> <<1>>, e |-> Top(x) - FarBelow])
    ELSE AddNear(x, y)

\* x + y
FAdd(x, y) ==
    IF IsZero(x) /\ IsZero(y) THEN FZero(IF x.s = 1 /\ y.s = 1 THEN 1 ELSE 0)
    ELSE IF IsZero(x) THEN y
    ELSE IF IsZero(y) THEN x
    ELSE IF Top(x) >= Top(y) THEN AddOrdered(x, y) ELSE AddOrdered(y, x)

\* x - y
FSub(x, y) == FAdd(x, FNeg(y))

\* x * y
FMul(x, y) ==
    IF IsZero(x) \/ IsZero(y) THEN FZero((x.s + y.s) % 2)
    ELSE Round((x.s + y.s) % 2, BMul(x.m, y.m), x.e + y.e, FALSE)

DivRound(s, qr, e) == Round(s, qr.q, e, qr.r # <<>>)

\* x / y for y # 0 (the callers model ZeroDivisionError themselves): the
\* quotient of x.m * 2^k by y.m has at least Precision + 2 bits
DivShifted(x, y, k) ==
    DivRound((x.s + y.s) % 2, BDivMod(BShl(x.m, k), y.m), x.e - y.e - k)

FDiv(x, y) ==
    IF IsZero(x) THEN FZero((x.s + y.s) % 2)
    ELSE DivShifted(x, y, Precision + 2 + BLen(y.m) - BLen(x.m))

\* a float literal n/d in decimal notation (0.92 is Rat(92, 100)): the
\* float nearest to the quotient
Rat(n, d) == FDiv(Float(n), Float(d))

SqrtRound(qr, e) == Round(0, qr.q, e, qr.r # <<>>)

\* the root of x.m * 2^k, k chosen to make x.e - k even, has at least
\* Precision + 2 bits
SqrtShifted(x, k) == SqrtRound(BSqrtRem(BShl(x.m, k)), (x.e - k) \div 2)

SqrtEven(x, k) == SqrtShifted(x, k + ((x.e - k) % 2))

\* math.sqrt(x) for x >= 0
FSqrt(x) ==
    IF IsZero(x) THEN x
    ELSE SqrtEven(x, Max(0, 2 * Precision + 3 - BLen(x.m)))

\* the sign of |x| - |y| for x, y # 0
MagCmp(x, y) ==
    IF Top(x) # Top(y) THEN Sgn(Top(x) - Top(y))
    ELSE BCmp(BShl(x.m, x.e - Min(x.e, y.e)), BShl(y.m, y.e - Min(x.e, y.e)))

FSign(x) == IF IsZero(x) THEN 0 ELSE 1 - 2 * x.s

\* the sign of x - y; -0.0 and 0.0 compare equal
FCmp(x, y) ==
    IF FSign(x) # FSign(y) THEN Sgn(FSign(x) - FSign(y))
    ELSE IF FSign(x) = 0 THEN 0
    ELSE FSign(x) * MagCmp(x, y)

FLt(x, y) == FCmp(x, y) < 0
FLe(x, y) == FCmp(x, y) <= 0
FEq(x, y) == FCmp(x, y) = 0

\* the j bits below the last kept bit of n, when k bits are cut off
RECURSIVE CutBits(_, _, _)
CutBits(n, k, j) ==
    IF j = 0 THEN 0 ELSE 2 * CutBits(n, k, j - 1) + BBit(n, k - j)

\* the floats n * 2^e may become when k bits are cut off and the result is
\* within one unit in the last place: the nearest float, and both
\* neighbours when n * 2^e is within 2^-j of a unit of their midpoint
NearCut(n, e, k, j) ==
    IF k <= 0 \/ CutBits(n, k, j) \notin {2 ^ (j - 1) - 1, 2 ^ (j - 1)}
    THEN {Round(0, n, e, FALSE)}
    ELSE {Pack(0, BShr(n, k), e + k), Pack(0, BAdd(BShr(n, k), <<1>>), e + k)}

\* x ** 2 is float_pow, that is libm's pow(x, 2.0), which is not correctly
\* rounded.  The error of pow is at most 0.511 units in the last place
\* from its exp step plus |ln(result)| * 1.5 * 2^-15 units from its log
\* step: below 1/2 + 1/64 for a result between 2^-PowRange and
\* 2^PowRange, and below 1/2 + 1/16 for every finite result.
PowRange  == 140
PowNarrow == 6
PowWide   == 4
PowBits(t) == IF -PowRange <= t /\ t <= PowRange THEN PowNarrow ELSE PowWide

\* the floats pow may return for the exact square n * 2^e: the nearest
\* float, or either neighbour when the square is that near their midpoint
SquareOf(n, e) ==
    NearCut(n, e, Max(BLen(n) - Precision, MinExp - e), PowBits(e + BLen(n)))

\* the floats x ** 2 may be
Squares(x) ==
    IF IsZero(x) THEN {Zero} ELSE SquareOf(BMul(x.m, x.m), 2 * x.e)

(***************************************************************************)
(* physics_verifier.py: constants                                          *)
(***************************************************************************)
BOND_SPRING_K    == Float(8)
BOND_DAMPING     == Rat(92, 100)
BOND_IDEAL_DIST  == Float(42)
DT               == Rat(1, 60)
BASE_ATOM_RADIUS == Float(7)
VDW_CARBON       == Rat(17, 10)
ATOM_RADIUS_PX   == FMul(VDW_CARBON, BASE_ATOM_RADIUS)
ATOM_DIAMETER_PX == FMul(ATOM_RADIUS_PX, Float(2))
MASS             == Float(12)
DECAY            == Rat(95, 100)
INIT_MIN_GAP     == Float(1000)
PASS_GAP         == Float(5)
Steps            == 300

(***************************************************************************)
(* class Atom                                                              *)
(***************************************************************************)
Atom(id, x, y) ==
    [id |-> id, x |-> Float(x), y |-> Float(y),
     vx |-> Zero, vy |-> Zero, fx |-> Zero, fy |-> Zero]

apply_force(a, fx, fy) ==
    [a EXCEPT !.fx = FAdd(a.fx, fx), !.fy = FAdd(a.fy, fy)]

\* lines 45-48: the position advances by the new velocity, the force is reset
Advance(a, vx, vy) ==
    [a EXCEPT !.vx = vx, !.vy = vy,
              !.x = FAdd(a.x, FMul(vx, DT)),
              !.y = FAdd(a.y, FMul(vy, DT)),
              !.fx = Zero, !.fy = Zero]

update(a) ==
    Advance(a, FMul(FAdd(a.vx, FMul(FDiv(a.fx, MASS), DT)), DECAY),
               FMul(FAdd(a.vy, FMul(FDiv(a.fy, MASS), DT)), DECAY))

\* math.sqrt((a.x - b.x)**2 + (a.y - b.y)**2): the floats the call may
\* return (one, unless a square falls near a midpoint, see Squares)
dist(a, b) ==
    { FSqrt(FAdd(p, q)) : p \in Squares(FSub(a.x, b.x)),
                          q \in Squares(FSub(a.y, b.y)) }

\* line 58, mutated: the rest length is left out
SpringForceNoRest(d) == FMul(d, BOND_SPRING_K)

\* line 58: force = (d - BOND_IDEAL_DIST) * BOND_SPRING_K
SpringForce(d) == FMul(FSub(d, BOND_IDEAL_DIST), BOND_SPRING_K)

\* lines 72-73, mutated: the same force on both atoms
ApplyPairSameSign(a, b, fx, fy) ==
    [a |-> apply_force(a, fx, fy), b |-> apply_force(b, fx, fy)]

\* lines 72-73, mutated: the signs exchanged (+force on b, -force on a)
ApplyPairSwapped(a, b, fx, fy) ==
    [a |-> apply_force(a, FNeg(fx), FNeg(fy)), b |-> apply_force(b, fx, fy)]

\* lines 72-73: a.apply_force(fx, fy); b.apply_force(-fx, -fy)
ApplyPair(a, b, fx, fy) ==
    [a |-> apply_force(a, fx, fy), b |-> apply_force(b, FNeg(fx), FNeg(fy))]

\* line 74 after both forces are applied: return True
Applied(ab) == [ret |-> "True", raised |-> FALSE, a |-> ab.a, b |-> ab.b]

\* lines 62-63 and 69-70: fx = ux * force + ux * damp, fy likewise
Forces(ux, uy, force, damping) ==
    [fx |-> FAdd(FMul(ux, force), FMul(ux, damping)),
     fy |-> FAdd(FMul(uy, force), FMul(uy, damping))]

\* lines 66-68: the relative velocity along the bond, times BOND_DAMPING
Damping(a, b, ux, uy) ==
    FMul(FAdd(FMul(FSub(b.vx, a.vx), ux), FMul(FSub(b.vy, a.vy), uy)),
         BOND_DAMPING)

\* lines 72-74: the two forces are applied and True is returned
Pushed(a, b, f) == Applied(ApplyPair(a, b, f.fx, f.fy))

\* lines 62-74, with the unit vector (dx/d, dy/d) and the spring force known
Push(a, b, ux, uy, force) ==
    Pushed(a, b, Forces(ux, uy, force, Damping(a, b, ux, uy)))

\* the body of solve_bond after the `d == 0` test, lines 57-74; a float
\* division by d = 0.0 raises ZeroDivisionError before anything is applied
SolveBondBody(a, b, d) ==
    IF IsZero(d)
    THEN [ret |-> "none", raised |-> TRUE, a |-> a, b |-> b]
    ELSE Push(a, b, FDiv(FSub(b.x, a.x), d), FDiv(FSub(b.y, a.y), d),
              SpringForce(d))

\* solve_bond, mutated: the `if d == 0: return False` test is missing
solve_bond_NoGuard(a, b) == { SolveBondBody(a, b, d) : d \in dist(a, b) }

\* lines 55-74, with d = dist(a, b)
SolveBondAt(a, b, d) ==
    IF IsZero(d)
    THEN [ret |-> "False", raised |-> FALSE, a |-> a, b |-> b]
    ELSE SolveBondBody(a, b, d)

\* the outcomes of solve_bond(a, b): the return value, whether
\* ZeroDivisionError was raised, and the two atoms afterwards
solve_bond(a, b) == { SolveBondAt(a, b, d) : d \in dist(a, b) }

DigitTokens == <<"0", "1", "2", "3", "4", "5", "6", "7", "8", "9">>

\* the decimal digits of a, most significant first
RECURSIVE DecDigits(_)
DecDigitsPut(qr) == DecDigits(qr.q) \o <<DigitTokens[qr.r + 1]>>
DecDigits(a) == IF a = <<>> THEN <<>> ELSE DecDigitsPut(BDivSmall(a, 10))

DecText(a) == IF a = <<>> THEN <<"0">> ELSE DecDigits(a)

\* n / 2^k rounded to the nearest integer, a tie to the even one
RoundInt(n, k) ==
    IF BBit(n, k - 1) = 1 /\ (~BLowZero(n, k - 1) \/ BBit(n, k) = 1)
    THEN BAdd(BShr(n, k), <<1>>)
    ELSE BShr(n, k)

\* 100 * |v| rounded to the nearest integer, a tie to the even one
Hundredths(v) ==
    IF v.e >= 0 THEN BShl(BMulSmall(v.m, 100), v.e)
    ELSE RoundInt(BMulSmall(v.m, 100), -v.e)

\* sign, integer digits, point and two decimals of qr.q + qr.r / 100
FixedText(s, qr) ==
    (IF s = 1 THEN <<"-">> ELSE <<>>) \o DecText(qr.q)
    \o <<".", DigitTokens[(qr.r \div 10) + 1], DigitTokens[(qr.r % 10) + 1]>>

\* f"{v:.2f}", as a sequence of characters: the exact value of the float is
\* rounded to the nearest hundredth, a tie to the even one; a negative
\* value keeps its sign ("-0.00")
Fmt2(v) == FixedText(v.s, BDivSmall(Hundredths(v), 100))

Line(text, args) == [text |-> text, args |-> args]

(***************************************************************************)
(* physics_verifier.py: the script                                         *)
(***************************************************************************)
SquareAtoms ==
    [i \in 0..3 |-> CASE i = 0 -> Atom(0, 0, 0)
                      [] i = 1 -> Atom(1, 42, 0)
                      [] i = 2 -> Atom(2, 42, 42)
                      [] i = 3 -> Atom(3, 0, 42)]

bonds == <<(<<0, 1>>), (<<1, 2>>), (<<2, 3>>), (<<3, 0>>)>>

EmptyDict == [k \in {} |-> 0]

IdleAudit == /\ lines = <<>> /\ connections = EmptyDict /\ parent_of = EmptyDict
             /\ violations = <<>>
IdlePair  == /\ atoms0 = <<>> /\ ret = "none" /\ raised = FALSE

InitSim ==
    /\ pc = "loop"
    /\ atoms = SquareAtoms
    /\ out = << Line("--- DIAGNOSTICS: Carbon Ring (C4) ---", <<>>),
                Line("Physics Dist Target: {} px", <<BOND_IDEAL_DIST>>),
                Line("Atom Radius: {:.2f} px", <<Fmt2(ATOM_RADIUS_PX)>>),
                Line("Atom Diameter: {:.2f} px", <<Fmt2(ATOM_DIAMETER_PX)>>),
                Line("Visual Collision Threshold: {:.2f} px",
                     <<Fmt2(ATOM_DIAMETER_PX)>>) >>
    /\ step = 0 /\ bi = 0 /\ ai = 0
    /\ gap = Zero
    /\ min_gap = INIT_MIN_GAP
    /\ final_dist = Zero /\ final_gap = Zero
    /\ IdleAudit /\ IdlePair

\* for (i,j) in bonds: solve_bond(atoms[i], atoms[j])   -- one iteration
SimSolveBond ==
    /\ pc = "loop" /\ step < Steps /\ bi < Len(bonds)
    /\ \E i \in {bonds[bi + 1][1]}, j \in {bonds[bi + 1][2]} :
          \E r \in solve_bond(atoms[i], atoms[j]) :
             /\ ~r.raised
             /\ atoms' = [atoms EXCEPT ![i] = r.a, ![j] = r.b]
    /\ bi' = bi + 1
    /\ UNCHANGED <<pc, out, step, ai, gap, min_gap, final_dist, final_gap>>
    /\ UNCHANGED auditVars /\ UNCHANGED pairVars

\* for a in atoms: a.update()   -- one iteration
SimUpdateAtom ==
    /\ pc = "loop" /\ step < Steps /\ bi = Len(bonds) /\ ai < 4
    /\ atoms' = [atoms EXCEPT ![ai] = update(atoms[ai])]
    /\ ai' = ai + 1
    /\ UNCHANGED <<pc, out, step, bi, gap, min_gap, final_dist, final_gap>>
    /\ UNCHANGED auditVars /\ UNCHANGED pairVars

\* line 95, mutated: the comparison is reversed
TrackMinReversed(g, m) == IF FLt(m, g) THEN g ELSE m

\* line 95: if gap < min_gap: min_gap = gap
TrackMin(g, m) == IF FLt(g, m) THEN g ELSE m

\* lines 93-95, then the next iteration of the step loop
SimMeasureGap ==
    /\ pc = "loop" /\ step < Steps /\ bi = Len(bonds) /\ ai = 4
    /\ \E g \in {FSub(d, ATOM_DIAMETER_PX) : d \in dist(atoms[0], atoms[1])} :
          /\ gap' = g
          /\ min_gap' = TrackMin(g, min_gap)
    /\ step' = step + 1 /\ bi' = 0 /\ ai' = 0
    /\ UNCHANGED <<pc, out, atoms, final_dist, final_gap>>
    /\ UNCHANGED auditVars /\ UNCHANGED pairVars

\* lines 97-102
SimResults ==
    /\ pc = "loop" /\ step = Steps
    /\ \E fd \in dist(atoms[0], atoms[1]) :
          \E fg \in {FSub(fd, ATOM_DIAMETER_PX)} :
             /\ final_dist' = fd
             /\ final_gap' = fg
             /\ out' = out \o
                  << Line("--- RESULTS after 300 steps ---", <<>>),
                     Line("Final Bond Length: {:.2f} px", <<Fmt2(fd)>>),
                     Line("Final Visual Gap:  {:.2f} px", <<Fmt2(fg)>>) >>
    /\ pc' = "verdict"
    /\ UNCHANGED <<atoms, step, bi, ai, gap, min_gap>>
    /\ UNCHANGED auditVars /\ UNCHANGED pairVars

PassLine == Line("[PASS] VISUALS CLEAR. Atoms are separated by visible bond line.", <<>>)
WarnLine == Line("[WARN] VISUALS TIGHT. Atoms are barely touching.", <<>>)
FailLine == Line("[FAIL] OVERLAP DETECTED. Atoms are clipping!", <<>>)

\* lines 104-109, mutated: the first test is reversed
VerdictReversed(fg) ==
    IF FLt(fg, PASS_GAP) THEN PassLine
    ELSE IF FLt(Zero, fg) THEN WarnLine ELSE FailLine

\* lines 104-109
Verdict(fg) ==
    IF FLt(PASS_GAP, fg)
    THEN PassLine
    ELSE IF FLt(Zero, fg) THEN WarnLine ELSE FailLine

\* lines 104-109
SimVerdict ==
    /\ pc = "verdict"
    /\ out' = Append(out, Verdict(final_gap))
    /\ pc' = "done"
    /\ UNCHANGED <<atoms, step, bi, ai, gap, min_gap, final_dist, final_gap>>
    /\ UNCHANGED auditVars /\ UNCHANGED pairVars

NextSim ==
    \/ SimSolveBond
    \/ SimUpdateAtom
    \/ SimMeasureGap
    \/ SimResults
    \/ SimVerdict

SpecSim == InitSim /\ [][NextSim]_vars

(***************************************************************************)
(* solve_bond followed by update() of both atoms, on one pair of atoms     *)
(* drawn from bounded sets: positions with integer coordinates and a       *)
(* rational distance, velocities that are multiples of 125 px/s, integer   *)
(* prior accumulator contents.                                             *)
(***************************************************************************)
MaxStretch == 1
MaxVel     == 1
MaxAcc     == 1

Origins == { <<0, 0>>, <<-3, 2>> }

Offsets ==
    { <<0, 0>> }
    \cup { <<s * l, 0>> : s \in {-1, 1},
                          l \in {1} \cup ((42 - MaxStretch)..(42 + MaxStretch)) }
    \cup { <<0, s * l>> : s \in {-1, 1},
                          l \in {1} \cup ((42 - MaxStretch)..(42 + MaxStretch)) }
    \cup { <<3 * m, 4 * m>> : m \in 7..9 }
    \cup { <<-4 * m, 3 * m>> : m \in 7..9 }
    \cup { <<s * k, k>> : s \in {-1, 1},
                          k \in (30 - MaxStretch)..(30 + MaxStretch) }

Vels == { 125 * k : k \in (-MaxVel)..MaxVel }

PairAtom(id, x, y, vx, vy, fx, fy) ==
    [id |-> id, x |-> Float(x), y |-> Float(y),
     vx |-> Float(vx), vy |-> Float(vy), fx |-> Float(fx), fy |-> Float(fy)]

IdleSim == /\ step = 0 /\ bi = 0 /\ gap = Zero /\ min_gap = INIT_MIN_GAP
           /\ final_dist = Zero /\ final_gap = Zero

InitPair ==
    /\ pc = "pair_call"
    /\ out = <<>>
    /\ \E o \in Origins, off \in Offsets, va \in Vels, vb \in Vels,
          p \in 0..MaxAcc :
          atoms = [i \in 0..1 |->
                     IF i = 0
                     THEN PairAtom(0, o[1], o[2], va, vb, p, 0)
                     ELSE PairAtom(1, o[1] + off[1], o[2] + off[2],
                                   vb, -va, 0, -p)]
    /\ atoms0 = atoms
    /\ ret = "none" /\ raised = FALSE
    /\ ai = 0
    /\ IdleSim /\ IdleAudit

\* solve_bond(atoms[0], atoms[1])
PairSolve ==
    /\ pc = "pair_call"
    /\ \E r \in solve_bond(atoms[0], atoms[1]) :
          /\ atoms' = [atoms EXCEPT ![0] = r.a, ![1] = r.b]
          /\ ret' = r.ret
          /\ raised' = r.raised
          /\ pc' = IF r.raised THEN "pair_raised" ELSE "pair_update"
    /\ UNCHANGED <<out, ai, atoms0>>
    /\ UNCHANGED auditVars /\ UNCHANGED simVars

\* atoms[ai].update()
PairUpdate ==
    /\ pc = "pair_update" /\ ai < 2
    /\ atoms' = [atoms EXCEPT ![ai] = update(atoms[ai])]
    /\ ai' = ai + 1
    /\ pc' = IF ai = 1 THEN "pair_done" ELSE pc
    /\ UNCHANGED <<out, atoms0, ret, raised>>
    /\ UNCHANGED auditVars /\ UNCHANGED simVars

NextPair ==
    \/ PairSolve
    \/ PairUpdate

SpecPair == InitPair /\ [][NextPair]_vars

(***************************************************************************)
(* audit_valency.py: analyze_logs.  A log line is a sequence of tokens:    *)
(* the literal texts of bond_pattern, decimal digits, and other text.      *)
(***************************************************************************)
MaxId    == 1
MaxLines == 3

PREFIX == "[BOND] GLOBAL SUCCESS: "
ARROW  == " -> "

\* \d in a str pattern: every character of Unicode category Nd (Unicode 14.0,
\* 66 scripts of ten consecutive code points each, in the order 0..9).  A
\* character outside ASCII is written as the token "<U+XXXX>".
DigitRuns == <<
    <<"0", "1", "2", "3", "4", "5", "6", "7", "8", "9">>,
    <<"<U+0660>", "<U+0661>", "<U+0662>", "<U+0663>", "<U+0664>", "<U+0665>", "<U+0666>", "<U+0667>", "<U+0668>", "<U+0669>">>,
    <<"<U+06F0>", "<U+06F1>", "<U+06F2>", "<U+06F3>", "<U+06F4>", "<U+06F5>", "<U+06F6>", "<U+06F7>", "<U+06F8>", "<U+06F9>">>,
    <<"<U+07C0>", "<U+07C1>", "<U+07C2>", "<U+07C3>", "<U+07C4>", "<U+07C5>", "<U+07C6>", "<U+07C7>", "<U+07C8>", "<U+07C9>">>,
    <<"<U+0966>", "<U+0967>", "<U+0968>", "<U+0969>", "<U+096A>", "<U+096B>", "<U+096C>", "<U+096D>", "<U+096E>", "<U+096F>">>,
    <<"<U+09E6>", "<U+09E7>", "<U+09E8>", "<U+09E9>", "<U+09EA>", "<U+09EB>", "<U+09EC>", "<U+09ED>", "<U+09EE>", "<U+09EF>">>,
    <<"<U+0A66>", "<U+0A67>", "<U+0A68>", "<U+0A69>", "<U+0A6A>", "<U+0A6B>", "<U+0A6C>", "<U+0A6D>", "<U+0A6E>", "<U+0A6F>">>,
    <<"<U+0AE6>", "<U+0AE7>", "<U+0AE8>", "<U+0AE9>", "<U+0AEA>", "<U+0AEB>", "<U+0AEC>", "<U+0AED>", "<U+0AEE>", "<U+0AEF>">>,
    <<"<U+0B66>", "<U+0B67>", "<U+0B68>", "<U+0B69>", "<U+0B6A>", "<U+0B6B>", "<U+0B6C>", "<U+0B6D>", "<U+0B6E>", "<U+0B6F>">>,
    <<"<U+0BE6>", "<U+0BE7>", "<U+0BE8>", "<U+0BE9>", "<U+0BEA>", "<U+0BEB>", "<U+0BEC>", "<U+0BED>", "<U+0BEE>", "<U+0BEF>">>,
    <<"<U+0C66>", "<U+0C67>", "<U+0C68>", "<U+0C69>", "<U+0C6A>", "<U+0C6B>", "<U+0C6C>", "<U+0C6D>", "<U+0C6E>", "<U+0C6F>">>,
    <<"<U+0CE6>", "<U+0CE7>", "<U+0CE8>", "<U+0CE9>", "<U+0CEA>", "<U+0CEB>", "<U+0CEC>", "<U+0CED>", "<U+0CEE>", "<U+0CEF>">>,
    <<"<U+0D66>", "<U+0D67>", "<U+0D68>", "<U+0D69>", "<U+0D6A>", "<U+0D6B>", "<U+0D6C>", "<U+0D6D>", "<U+0D6E>", "<U+0D6F>">>,
    <<"<U+0DE6>", "<U+0DE7>", "<U+0DE8>", "<U+0DE9>", "<U+0DEA>", "<U+0DEB>", "<U+0DEC>", "<U+0DED>", "<U+0DEE>", "<U+0DEF>">>,
    <<"<U+0E50>", "<U+0E51>", "<U+0E52>", "<U+0E53>", "<U+0E54>", "<U+0E55>", "<U+0E56>", "<U+0E57>", "<U+0E58>", "<U+0E59>">>,
    <<"<U+0ED0>", "<U+0ED1>", "<U+0ED2>", "<U+0ED3>", "<U+0ED4>", "<U+0ED5>", "<U+0ED6>", "<U+0ED7>", "<U+0ED8>", "<U+0ED9>">>,
    <<"<U+0F20>", "<U+0F21>", "<U+0F22>", "<U+0F23>", "<U+0F24>", "<U+0F25>", "<U+0F26>", "<U+0F27>", "<U+0F28>", "<U+0F29>">>,
    <<"<U+1040>", "<U+1041>", "<U+1042>", "<U+1043>", "<U+1044>", "<U+1045>", "<U+1046>", "<U+1047>", "<U+1048>", "<U+1049>">>,
    <<"<U+1090>", "<U+1091>", "<U+1092>", "<U+1093>", "<U+1094>", "<U+1095>", "<U+1096>", "<U+1097>", "<U+1098>", "<U+1099>">>,
    <<"<U+17E0>", "<U+17E1>", "<U+17E2>", "<U+17E3>", "<U+17E4>", "<U+17E5>", "<U+17E6>", "<U+17E7>", "<U+17E8>", "<U+17E9>">>,
    <<"<U+1810>", "<U+1811>", "<U+1812>", "<U+1813>", "<U+1814>", "<U+1815>", "<U+1816>", "<U+1817>", "<U+1818>", "<U+1819>">>,
    <<"<U+1946>", "<U+1947>", "<U+1948>", "<U+1949>", "<U+194A>", "<U+194B>", "<U+194C>", "<U+194D>", "<U+194E>", "<U+194F>">>,
    <<"<U+19D0>", "<U+19D1>", "<U+19D2>", "<U+19D3>", "<U+19D4>", "<U+19D5>", "<U+19D6>", "<U+19D7>", "<U+19D8>", "<U+19D9>">>,
    <<"<U+1A80>", "<U+1A81>", "<U+1A82>", "<U+1A83>", "<U+1A84>", "<U+1A85>", "<U+1A86>", "<U+1A87>", "<U+1A88>", "<U+1A89>">>,
    <<"<U+1A90>", "<U+1A91>", "<U+1A92>", "<U+1A93>", "<U+1A94>", "<U+1A95>", "<U+1A96>", "<U+1A97>", "<U+1A98>", "<U+1A99>">>,
    <<"<U+1B50>", "<U+1B51>", "<U+1B52>", "<U+1B53>", "<U+1B54>", "<U+1B55>", "<U+1B56>", "<U+1B57>", "<U+1B58>", "<U+1B59>">>,
    <<"<U+1BB0>", "<U+1BB1>", "<U+1BB2>", "<U+1BB3>", "<U+1BB4>", "<U+1BB5>", "<U+1BB6>", "<U+1BB7>", "<U+1BB8>", "<U+1BB9>">>,
    <<"<U+1C40>", "<U+1C41>", "<U+1C42>", "<U+1C43>", "<U+1C44>", "<U+1C45>", "<U+1C46>", "<U+1C47>", "<U+1C48>", "<U+1C49>">>,
    <<"<U+1C50>", "<U+1C51>", "<U+1C52>", "<U+1C53>", "<U+1C54>", "<U+1C55>", "<U+1C56>", "<U+1C57>", "<U+1C58>", "<U+1C59>">>,
    <<"<U+A620>", "<U+A621>", "<U+A622>", "<U+A623>", "<U+A624>", "<U+A625>", "<U+A626>", "<U+A627>", "<U+A628>", "<U+A629>">>,
    <<"<U+A8D0>", "<U+A8D1>", "<U+A8D2>", "<U+A8D3>", "<U+A8D4>", "<U+A8D5>", "<U+A8D6>", "<U+A8D7>", "<U+A8D8>", "<U+A8D9>">>,
    <<"<U+A900>", "<U+A901>", "<U+A902>", "<U+A903>", "<U+A904>", "<U+A905>", "<U+A906>", "<U+A907>", "<U+A908>", "<U+A909>">>,
    <<"<U+A9D0>", "<U+A9D1>", "<U+A9D2>", "<U+A9D3>", "<U+A9D4>", "<U+A9D5>", "<U+A9D6>", "<U+A9D7>", "<U+A9D8>", "<U+A9D9>">>,
    <<"<U+A9F0>", "<U+A9F1>", "<U+A9F2>", "<U+A9F3>", "<U+A9F4>", "<U+A9F5>", "<U+A9F6>", "<U+A9F7>", "<U+A9F8>", "<U+A9F9>">>,
    <<"<U+AA50>", "<U+AA51>", "<U+AA52>", "<U+AA53>", "<U+AA54>", "<U+AA55>", "<U+AA56>", "<U+AA57>", "<U+AA58>", "<U+AA59>">>,
    <<"<U+ABF0>", "<U+ABF1>", "<U+ABF2>", "<U+ABF3>", "<U+ABF4>", "<U+ABF5>", "<U+ABF6>", "<U+ABF7>", "<U+ABF8>", "<U+ABF9>">>,
    <<"<U+FF10>", "<U+FF11>", "<U+FF12>", "<U+FF13>", "<U+FF14>", "<U+FF15>", "<U+FF16>", "<U+FF17>", "<U+FF18>", "<U+FF19>">>,
    <<"<U+104A0>", "<U+104A1>", "<U+104A2>", "<U+104A3>", "<U+104A4>", "<U+104A5>", "<U+104A6>", "<U+104A7>", "<U+104A8>", "<U+104A9>">>,
    <<"<U+10D30>", "<U+10D31>", "<U+10D32>", "<U+10D33>", "<U+10D34>", "<U+10D35>", "<U+10D36>", "<U+10D37>", "<U+10D38>", "<U+10D39>">>,
    <<"<U+11066>", "<U+11067>", "<U+11068>", "<U+11069>", "<U+1106A>", "<U+1106B>", "<U+1106C>", "<U+1106D>", "<U+1106E>", "<U+1106F>">>,
    <<"<U+110F0>", "<U+110F1>", "<U+110F2>", "<U+110F3>", "<U+110F4>", "<U+110F5>", "<U+110F6>", "<U+110F7>", "<U+110F8>", "<U+110F9>">>,
    <<"<U+11136>", "<U+11137>", "<U+11138>", "<U+11139>", "<U+1113A>", "<U+1113B>", "<U+1113C>", "<U+1113D>", "<U+1113E>", "<U+1113F>">>,
    <<"<U+111D0>", "<U+111D1>", "<U+111D2>", "<U+111D3>", "<U+111D4>", "<U+111D5>", "<U+111D6>", "<U+111D7>", "<U+111D8>", "<U+111D9>">>,
    <<"<U+112F0>", "<U+112F1>", "<U+112F2>", "<U+112F3>", "<U+112F4>", "<U+112F5>", "<U+112F6>", "<U+112F7>", "<U+112F8>", "<U+112F9>">>,
    <<"<U+11450>", "<U+11451>", "<U+11452>", "<U+11453>", "<U+11454>", "<U+11455>", "<U+11456>", "<U+11457>", "<U+11458>", "<U+11459>">>,
    <<"<U+114D0>", "<U+114D1>", "<U+114D2>", "<U+114D3>", "<U+114D4>", "<U+114D5>", "<U+114D6>", "<U+114D7>", "<U+114D8>", "<U+114D9>">>,
    <<"<U+11650>", "<U+11651>", "<U+11652>", "<U+11653>", "<U+11654>", "<U+11655>", "<U+11656>", "<U+11657>", "<U+11658>", "<U+11659>">>,
    <<"<U+116C0>", "<U+116C1>", "<U+116C2>", "<U+116C3>", "<U+116C4>", "<U+116C5>", "<U+116C6>", "<U+116C7>", "<U+116C8>", "<U+116C9>">>,
    <<"<U+11730>", "<U+11731>", "<U+11732>", "<U+11733>", "<U+11734>", "<U+11735>", "<U+11736>", "<U+11737>", "<U+11738>", "<U+11739>">>,
    <<"<U+118E0>", "<U+118E1>", "<U+118E2>", "<U+118E3>", "<U+118E4>", "<U+118E5>", "<U+118E6>", "<U+118E7>", "<U+118E8>", "<U+118E9>">>,
    <<"<U+11950>", "<U+11951>", "<U+11952>", "<U+11953>", "<U+11954>", "<U+11955>", "<U+11956>", "<U+11957>", "<U+11958>", "<U+11959>">>,
    <<"<U+11C50>", "<U+11C51>", "<U+11C52>", "<U+11C53>", "<U+11C54>", "<U+11C55>", "<U+11C56>", "<U+11C57>", "<U+11C58>", "<U+11C59>">>,
    <<"<U+11D50>", "<U+11D51>", "<U+11D52>", "<U+11D53>", "<U+11D54>", "<U+11D55>", "<U+11D56>", "<U+11D57>", "<U+11D58>", "<U+11D59>">>,
    <<"<U+11DA0>", "<U+11DA1>", "<U+11DA2>", "<U+11DA3>", "<U+11DA4>", "<U+11DA5>", "<U+11DA6>", "<U+11DA7>", "<U+11DA8>", "<U+11DA9>">>,
    <<"<U+16A60>", "<U+16A61>", "<U+16A62>", "<U+16A63>", "<U+16A64>", "<U+16A65>", "<U+16A66>", "<U+16A67>", "<U+16A68>", "<U+16A69>">>,
    <<"<U+16AC0>", "<U+16AC1>", "<U+16AC2>", "<U+16AC3>", "<U+16AC4>", "<U+16AC5>", "<U+16AC6>", "<U+16AC7>", "<U+16AC8>", "<U+16AC9>">>,
    <<"<U+16B50>", "<U+16B51>", "<U+16B52>", "<U+16B53>", "<U+16B54>", "<U+16B55>", "<U+16B56>", "<U+16B57>", "<U+16B58>", "<U+16B59>">>,
    <<"<U+1D7CE>", "<U+1D7CF>", "<U+1D7D0>", "<U+1D7D1>", "<U+1D7D2>", "<U+1D7D3>", "<U+1D7D4>", "<U+1D7D5>", "<U+1D7D6>", "<U+1D7D7>">>,
    <<"<U+1D7D8>", "<U+1D7D9>", "<U+1D7DA>", "<U+1D7DB>", "<U+1D7DC>", "<U+1D7DD>", "<U+1D7DE>", "<U+1D7DF>", "<U+1D7E0>", "<U+1D7E1>">>,
    <<"<U+1D7E2>", "<U+1D7E3>", "<U+1D7E4>", "<U+1D7E5>", "<U+1D7E6>", "<U+1D7E7>", "<U+1D7E8>", "<U+1D7E9>", "<U+1D7EA>", "<U+1D7EB>">>,
    <<"<U+1D7EC>", "<U+1D7ED>", "<U+1D7EE>", "<U+1D7EF>", "<U+1D7F0>", "<U+1D7F1>", "<U+1D7F2>", "<U+1D7F3>", "<U+1D7F4>", "<U+1D7F5>">>,
    <<"<U+1D7F6>", "<U+1D7F7>", "<U+1D7F8>", "<U+1D7F9>", "<U+1D7FA>", "<U+1D7FB>", "<U+1D7FC>", "<U+1D7FD>", "<U+1D7FE>", "<U+1D7FF>">>,
    <<"<U+1E140>", "<U+1E141>", "<U+1E142>", "<U+1E143>", "<U+1E144>", "<U+1E145>", "<U+1E146>", "<U+1E147>", "<U+1E148>", "<U+1E149>">>,
    <<"<U+1E2F0>", "<U+1E2F1>", "<U+1E2F2>", "<U+1E2F3>", "<U+1E2F4>", "<U+1E2F5>", "<U+1E2F6>", "<U+1E2F7>", "<U+1E2F8>", "<U+1E2F9>">>,
    <<"<U+1E950>", "<U+1E951>", "<U+1E952>", "<U+1E953>", "<U+1E954>", "<U+1E955>", "<U+1E956>", "<U+1E957>", "<U+1E958>", "<U+1E959>">>,
    <<"<U+1FBF0>", "<U+1FBF1>", "<U+1FBF2>", "<U+1FBF3>", "<U+1FBF4>", "<U+1FBF5>", "<U+1FBF6>", "<U+1FBF7>", "<U+1FBF8>", "<U+1FBF9>">> >>

DigitSet == { DigitRuns[r][k] : r \in 1..Len(DigitRuns), k \in 1..10 }

IsDigit(t)  == t \in DigitSet
\* int() of one digit character: its position in its script
DigitVal(t) ==
    (CHOOSE k \in 1..10 : \E r \in 1..Len(DigitRuns) : DigitRuns[r][k] = t) - 1

\* str(n) for n >= 0, as digit tokens
RECURSIVE Str(_)
Str(n) == IF n < 10 THEN <<DigitTokens[n + 1]>>
          ELSE Append(Str(n \div 10), DigitTokens[(n % 10) + 1])

\* int(s) for a non-empty sequence of digit tokens
RECURSIVE IntOf(_)
IntOf(s) == IF Len(s) = 1 THEN DigitVal(s[1])
            ELSE 10 * IntOf(SubSeq(s, 1, Len(s) - 1)) + DigitVal(s[Len(s)])

\* \d+ is greedy: the index after the run of digits that starts at i
RECURSIVE DigitsEnd(_, _)
DigitsEnd(line, i) ==
    IF i <= Len(line) /\ IsDigit(line[i]) THEN DigitsEnd(line, i + 1) ELSE i

\* bond_pattern matches at token i
MatchAt(line, i) ==
    /\ line[i] = PREFIX
    /\ LET j == DigitsEnd(line, i + 1)
       IN  /\ j > i + 1
           /\ j <= Len(line)
           /\ line[j] = ARROW
           /\ DigitsEnd(line, j + 1) > j + 1

\* bond_pattern.search(line) with int(match.group(1)), int(match.group(2))
bond_search(line) ==
    IF \E i \in 1..Len(line) : MatchAt(line, i)
    THEN LET i == CHOOSE k \in 1..Len(line) :
                     /\ MatchAt(line, k)
                     /\ \A h \in 1..(k - 1) : ~MatchAt(line, h)
             j == DigitsEnd(line, i + 1)
             e == DigitsEnd(line, j + 1)
         IN  [matched |-> TRUE,
              child   |-> IntOf(SubSeq(line, i + 1, j - 1)),
              parent  |-> IntOf(SubSeq(line, j + 1, e - 1))]
    ELSE [matched |-> FALSE, child |-> 0, parent |-> 0]

\* connections[parent].append(child) on a defaultdict(list)
AppendChild(conn, parent, child) ==
    [k \in DOMAIN conn \cup {parent} |->
        IF k = parent
        THEN (IF parent \in DOMAIN conn THEN Append(conn[parent], child)
                                       ELSE <<child>>)
        ELSE conn[k]]

\* line 43, mutated: an existing entry is kept
SetParentKeepFirst(par, child, parent) ==
    IF child \in DOMAIN par THEN par
    ELSE [k \in DOMAIN par \cup {child} |-> IF k = child THEN parent ELSE par[k]]

\* line 43: parent_of[child] = parent
SetParent(par, child, parent) ==
    [k \in DOMAIN par \cup {child} |-> IF k = child THEN parent ELSE par[k]]

\* the lines the log file may hold
BondLine(c, p) == <<PREFIX>> \o Str(c) \o <<ARROW>> \o Str(p)

LogLines ==
    { BondLine(c, p) : c \in 0..MaxId, p \in 0..MaxId }
    \cup { <<>>,
           <<"[SPAWN] atom ", "1">>,
           <<PREFIX, "1", " => ", "0">>,
           <<"12:00:01 ", PREFIX, "1", "<U+0660>", ARROW, "<U+FF10>", " (ok)">> }

InitAudit ==
    /\ pc = "read"
    /\ out = << Line("--- AUDITORIA QUIMICA DE TOPOLOGIA: {file_path} ---", <<>>) >>
    /\ lines = <<>>
    /\ connections = EmptyDict
    /\ parent_of = EmptyDict
    /\ violations = <<>>
    /\ atoms = <<>> /\ ai = 0
    /\ IdleSim /\ IdlePair

\* one iteration of `for line in f`
ReadLine ==
    /\ pc = "read" /\ Len(lines) < MaxLines
    /\ \E line \in LogLines :
          /\ lines' = Append(lines, line)
          /\ LET match == bond_search(line)
             IN  IF match.matched
                 THEN /\ connections' = AppendChild(connections, match.parent, match.child)
                      /\ parent_of' = SetParent(parent_of, match.child, match.parent)
                 ELSE UNCHANGED <<connections, parent_of>>
    /\ UNCHANGED <<pc, out, violations, atoms, ai>>
    /\ UNCHANGED simVars /\ UNCHANGED pairVars

\* end of file: the `with` block is left, lines 45-47
EndOfFile ==
    /\ pc = "read"
    /\ out' = Append(out, Line("[ANALISIS DE ESTRUCTURAS DETECTADAS]", <<>>))
    /\ pc' = "player"
    /\ UNCHANGED <<lines, connections, parent_of, violations, atoms, ai>>
    /\ UNCHANGED simVars /\ UNCHANGED pairVars

ViolationText == "VIOLACION: Jugador (H) tiene {count} enlaces (max 1)."

\* lines 54-55, mutated: the limit is 2
PlayerViolationLimit2(count) ==
    IF count > 2 THEN << Line(ViolationText, <<Str(count)>>) >> ELSE <<>>

\* lines 54-55, mutated: a single child is already reported
PlayerViolationFromOne(count) ==
    IF count >= 1 THEN << Line(ViolationText, <<Str(count)>>) >> ELSE <<>>

\* lines 54-55
PlayerViolation(count) ==
    IF count > 1
    THEN << Line(ViolationText, <<Str(count)>>) >>
    ELSE <<>>

\* lines 58-61: one printed line per child of the player that has children
RECURSIVE ChildLines(_, _)
ChildLines(conn, children) ==
    IF children = <<>> THEN <<>>
    ELSE LET child_id == Head(children)
             rest     == ChildLines(conn, Tail(children))
         IN  IF child_id \in DOMAIN conn
             THEN << Line("  -> Hijo {child_id} tiene {n} enlaces. Estructura: H-{child_id}-(...)",
                          <<Str(child_id), Str(Len(conn[child_id]))>>) >> \o rest
             ELSE rest

\* lines 49-61
CheckPlayer ==
    /\ pc = "player"
    /\ IF 0 \in DOMAIN connections
       THEN LET children == connections[0]
                count    == Len(children)
            IN  /\ out' = out
                      \o << Line("Jugador (H, ID 0): {count} enlaces entrantes. Ninos: {children}",
                                 <<Str(count), children>>) >>
                      \o ChildLines(connections, children)
                /\ violations' = violations \o PlayerViolation(count)
       ELSE UNCHANGED <<out, violations>>
    /\ pc' = "population"
    /\ UNCHANGED <<lines, connections, parent_of, atoms, ai>>
    /\ UNCHANGED simVars /\ UNCHANGED pairVars

\* lines 63-76: the loop over the other atoms changes nothing
CheckPopulation ==
    /\ pc = "population"
    /\ out' = Append(out, Line("[VERIFICACION DE CAMINOS (Ejemplo H-C-H)]", <<>>))
    /\ pc' = "paths"
    /\ UNCHANGED <<lines, connections, parent_of, violations, atoms, ai>>
    /\ UNCHANGED simVars /\ UNCHANGED pairVars

\* the inner loop of lines 81-82
RECURSIVE GrandChildLines(_, _)
GrandChildLines(c1, c2s) ==
    IF c2s = <<>> THEN <<>>
    ELSE << Line("Cadena detectada: H(0) -> Atom({c1}) -> Atom({c2})",
                 <<Str(c1), Str(Head(c2s))>>) >>
         \o GrandChildLines(c1, Tail(c2s))

\* the outer loop of lines 79-82
RECURSIVE ChainLines(_, _)
ChainLines(conn, c1s) ==
    IF c1s = <<>> THEN <<>>
    ELSE LET c1 == Head(c1s)
         IN  (IF c1 \in DOMAIN conn THEN GrandChildLines(c1, conn[c1]) ELSE <<>>)
             \o ChainLines(conn, Tail(c1s))

\* lines 78-83
VerifyPaths ==
    /\ pc = "paths"
    /\ IF 0 \in DOMAIN connections
       THEN out' = out \o ChainLines(connections, connections[0])
       ELSE UNCHANGED out
    /\ pc' = "result"
    /\ UNCHANGED <<lines, connections, parent_of, violations, atoms, ai>>
    /\ UNCHANGED simVars /\ UNCHANGED pairVars

RECURSIVE ItemLines(_)
ItemLines(vs) ==
    IF vs = <<>> THEN <<>>
    ELSE << Line("  - {v}", <<Head(vs)>>) >> \o ItemLines(Tail(vs))

\* lines 85-91
Result ==
    /\ pc = "result"
    /\ IF violations = <<>>
       THEN out' = out \o
              << Line("[RESULTADO] No se detectaron violaciones de valencia critica o estructuras imposibles (como H-H-C).", <<>>),
                 Line("El sistema de Inteligencia Molecular parece guiar los atomos a los hosts correctos.", <<>>) >>
       ELSE out' = out \o << Line("[ALERTA] Anomalias detectadas:", <<>>) >>
                       \o ItemLines(violations)
    /\ pc' = "audit_done"
    /\ UNCHANGED <<lines, connections, parent_of, violations, atoms, ai>>
    /\ UNCHANGED simVars /\ UNCHANGED pairVars

Next ==
    \/ ReadLine
    \/ EndOfFile
    \/ CheckPlayer
    \/ CheckPopulation
    \/ VerifyPaths
    \/ Result

Spec == InitAudit /\ [][Next]_vars

(***************************************************************************)
(* Claims about analyze_logs (specification Spec)                          *)
(***************************************************************************)
\* the bond events of the log read so far, by line number
EventAt(i) == bond_search(lines[i])
EventIdx   == { i \in 1..Len(lines) : EventAt(i).matched }
ChildIds   == { EventAt(i).child : i \in EventIdx }
LastEventOf(c) ==
    CHOOSE i \in EventIdx :
        /\ EventAt(i).child = c
        /\ \A j \in EventIdx : EventAt(j).child = c => j <= i
RootCount  == Cardinality({ i \in EventIdx : EventAt(i).parent = 0 })
ResultLine == "[RESULTADO] No se detectaron violaciones de valencia critica o estructuras imposibles (como H-H-C)."
AlertLine  == "[ALERTA] Anomalias detectadas:"

\* C1: after any replayed sequence of bond events, parent_of has an entry
\* exactly for the ids that occur as a child, and parent_of[c] is the parent
\* of the last event whose child is c.
C1_LastWriteWins ==
    /\ DOMAIN parent_of = ChildIds
    /\ \A c \in ChildIds : parent_of[c] = EventAt(LastEventOf(c)).parent

\* a finished run in which a child was rebonded to another parent, and an id
\* that occurs only as a parent has no entry
C1_Witness ==
    /\ pc = "audit_done"
    /\ \E i, j \in EventIdx :
          /\ i < j
          /\ EventAt(i).child = EventAt(j).child
          /\ EventAt(i).parent # EventAt(j).parent
          /\ parent_of[EventAt(i).child] = EventAt(j).parent
    /\ \E i \in EventIdx : EventAt(i).parent \notin DOMAIN parent_of

\* C2: when the root (id 0) is the parent in n > 1 bond events (repeated
\* events counted separately), the run ends with exactly one violation, its
\* text carries the count n, and the report lists it under the alert line.
C2_RootViolation ==
    (pc = "audit_done" /\ RootCount > 1) =>
        /\ Len(violations) = 1
        /\ violations[1].text = ViolationText
        /\ violations[1].args = <<Str(RootCount)>>
        /\ out[Len(out) - 1].text = AlertLine
        /\ out[Len(out)].text = "  - {v}"
        /\ out[Len(out)].args[1] = violations[1]

\* a finished run with the same bond (child -> 0) logged twice
C2_Witness ==
    /\ pc = "audit_done"
    /\ RootCount = 2
    /\ \E i, j \in EventIdx : i < j /\ EventAt(i) = EventAt(j) /\ EventAt(i).parent = 0
    /\ Len(violations) = 1

\* C3: when the root is the parent in at most one bond event the run ends
\* with no violation and the clean verdict, whatever the other particles'
\* children; a root that is never a parent has no recorded children.
C3_CleanVerdict ==
    /\ (pc = "audit_done" /\ RootCount <= 1) =>
          /\ violations = <<>>
          /\ out[Len(out) - 1].text = ResultLine
          /\ \A k \in 1..Len(out) : out[k].text # AlertLine
    /\ RootCount = 0 => 0 \notin DOMAIN connections

\* a finished clean run in which the root has one child and that child, a
\* non-root particle, has two children
C3_Witness ==
    /\ pc = "audit_done"
    /\ RootCount = 1
    /\ \E k \in DOMAIN connections : k # 0 /\ Len(connections[k]) >= 2
    /\ violations = <<>>

(***************************************************************************)
(* Claims about the diagnostic script (specification SpecSim)              *)
(***************************************************************************)
FinalLengthText == "Final Bond Length: {:.2f} px"
FinalGapText    == "Final Visual Gap:  {:.2f} px"
ResultsHeader   == "--- RESULTS after 300 steps ---"
VerdictLines    == { PassLine, WarnLine, FailLine }
HalfPx          == Rat(1, 2)

\* C4: with the default constants and the 4-particle square, after 300
\* iterations the distance between particles 0 and 1 is within 0.5 of 42.0,
\* the final gap is greater than 5.0 and the verdict printed is PASS.
C4_SquareConverges ==
    pc = "done" =>
        /\ step = Steps
        /\ final_dist \in dist(atoms[0], atoms[1])
        /\ FLe(FAbs(FSub(final_dist, BOND_IDEAL_DIST)), HalfPx)
        /\ final_gap = FSub(final_dist, ATOM_DIAMETER_PX)
        /\ FLt(PASS_GAP, final_gap)
        /\ out[Len(out)] = PassLine

\* the script has finished its 300 steps and printed its verdict
C4_Witness ==
    /\ pc = "done"
    /\ step = 300
    /\ out[Len(out)] \in VerdictLines

\* C7: after every step the tracked min_gap is at most the gap measured in
\* that step, so at loop exit min_gap <= final_gap.
C7_MinGapBound ==
    /\ (pc = "loop" /\ step > 0 /\ bi = 0 /\ ai = 0) => FLe(min_gap, gap)
    /\ pc \in {"verdict", "done"} => FLe(min_gap, final_gap)

\* the loop has finished and min_gap was lowered from its initial 1000.0
C7_Witness ==
    /\ pc = "done"
    /\ step = Steps
    /\ FLt(min_gap, INIT_MIN_GAP)
    /\ min_gap = final_gap

\* C8: the post-run output holds three results (final bond length, final
\* gap, minimum gap observed) followed by exactly one verdict line.
C8_ReportsMinGap ==
    pc = "done" =>
        \E h, i, j, k \in 1..Len(out) :
            /\ h < i /\ i < j /\ j < Len(out) /\ h < k /\ k < Len(out)
            /\ out[h].text = ResultsHeader
            /\ out[i].text = FinalLengthText /\ out[i].args = <<Fmt2(final_dist)>>
            /\ out[j].text = FinalGapText /\ out[j].args = <<Fmt2(final_gap)>>
            /\ k \notin {i, j} /\ out[k].args = <<Fmt2(min_gap)>>
            /\ out[Len(out)] \in VerdictLines
            /\ \A v \in 1..(Len(out) - 1) : out[v] \notin VerdictLines

\* what the report does hold: the two final results and one verdict line
C8_ReportAsPrinted ==
    pc = "done" =>
        /\ Len(out) = 9
        /\ out[6].text = ResultsHeader
        /\ out[7] = Line(FinalLengthText, <<Fmt2(final_dist)>>)
        /\ out[8] = Line(FinalGapText, <<Fmt2(final_gap)>>)
        /\ out[9] \in VerdictLines

(***************************************************************************)
(* Claims about solve_bond and Atom.update (specification SpecPair)        *)
(***************************************************************************)
A0 == atoms0[0]
B0 == atoms0[1]
A1 == atoms[0]
B1 == atoms[1]

\* solve_bond has returned and no atom has been updated yet
Solved      == pc = "pair_update" /\ ai = 0
AtRest(a)   == IsZero(a.vx) /\ IsZero(a.vy)
NoForce(a)  == IsZero(a.fx) /\ IsZero(a.fy)
Coincident0 == FEq(A0.x, B0.x) /\ FEq(A0.y, B0.y)
Moved(a, b) == a.x # b.x \/ a.y # b.y \/ a.vx # b.vx \/ a.vy # b.vy
Dot(px, py, qx, qy) == FAdd(FMul(px, qx), FMul(py, qy))
DistSq0     == Dot(FSub(B0.x, A0.x), FSub(B0.y, A0.y),
                   FSub(B0.x, A0.x), FSub(B0.y, A0.y))
IdealSq     == FMul(BOND_IDEAL_DIST, BOND_IDEAL_DIST)
AllAtRest0  == AtRest(A0) /\ AtRest(B0) /\ NoForce(A0) /\ NoForce(B0)

\* the force of the bond on the pair as passed in, for the distance d > 0
\* between the two: spring term and axial damping term, each along the unit
\* vector from A to B, added in the order of the code
ExpectedAlong(ux, uy, spring, damping) ==
    [x |-> FAdd(FMul(ux, spring), FMul(ux, damping)),
     y |-> FAdd(FMul(uy, spring), FMul(uy, damping))]

ExpectedUnit(d, ux, uy) ==
    ExpectedAlong(ux, uy, FMul(FSub(d, BOND_IDEAL_DIST), BOND_SPRING_K),
                  FMul(Dot(FSub(B0.vx, A0.vx), FSub(B0.vy, A0.vy), ux, uy),
                       BOND_DAMPING))

Expected ==
    { ExpectedUnit(d, FDiv(FSub(B0.x, A0.x), d), FDiv(FSub(B0.y, A0.y), d)) :
          d \in dist(A0, B0) }

\* C5: two atoms at rest with empty accumulators, exactly the ideal length
\* apart: solve_bond accumulates zero force on each, and after update() of
\* both the pair is exactly as it was passed in.
C5_EquilibriumFixedPoint ==
    (DistSq0 = IdealSq /\ AllAtRest0) =>
        /\ pc # "pair_raised"
        /\ Solved => (ret = "True" /\ NoForce(A1) /\ NoForce(B1))
        /\ pc = "pair_done" => atoms = atoms0

\* a pair at rest at the ideal length, after solve_bond and both updates
C5_Witness ==
    /\ pc = "pair_done"
    /\ DistSq0 = IdealSq
    /\ AllAtRest0
    /\ ret = "True"

\* C6: solve_bond on two atoms at the same position raises nothing, returns
\* False and leaves both atoms exactly as they were.
C6_CoincidentNoOp ==
    Coincident0 =>
        /\ pc # "pair_raised" /\ ~raised
        /\ Solved => (ret = "False" /\ atoms = atoms0)

\* coincident atoms with non-zero velocities and accumulators, after the call
C6_Witness ==
    /\ Solved
    /\ Coincident0
    /\ ~AtRest(A0) /\ ~AtRest(B0) /\ ~NoForce(A0) /\ ~NoForce(B0)
    /\ ret = "False"

\* C9 as stated: for distance > 0, solve_bond adds +force to B's
\* accumulator and -force to A's accumulator.
C9_ForceOnB ==
    (Solved /\ ~Coincident0) =>
        \E f \in Expected :
            /\ B1.fx = FAdd(B0.fx, f.x) /\ B1.fy = FAdd(B0.fy, f.y)
            /\ A1.fx = FSub(A0.fx, f.x) /\ A1.fy = FSub(A0.fy, f.y)

\* C9 amended: for distance > 0, solve_bond returns True, adds +force to A's
\* accumulator and -force to B's accumulator, and changes no position or
\* velocity.
C9_ForceOnA ==
    (Solved /\ ~Coincident0) =>
        /\ ret = "True"
        /\ \E f \in Expected :
              /\ A1.fx = FAdd(A0.fx, f.x) /\ A1.fy = FAdd(A0.fy, f.y)
              /\ B1.fx = FSub(B0.fx, f.x) /\ B1.fy = FSub(B0.fy, f.y)
        /\ ~Moved(A1, A0) /\ ~Moved(B1, B0)

\* a stretched, moving pair with filled accumulators after the call, with a
\* non-zero force whose damping part is non-zero
C9_Witness ==
    /\ Solved
    /\ ~Coincident0
    /\ FLt(IdealSq, DistSq0)
    /\ ~NoForce(A0) /\ ~NoForce(B0)
    /\ ~IsZero(Dot(FSub(B0.vx, A0.vx), FSub(B0.vy, A0.vy),
                   FSub(B0.x, A0.x), FSub(B0.y, A0.y)))
    /\ \A f \in Expected : ~IsZero(f.x) /\ ~IsZero(f.y)

\* C10: for a pair at rest with empty accumulators at distance d, the force
\* solve_bond accumulates on each atom points toward the other atom when
\* d > ideal and away from it when 0 < d < ideal, and after update() of both
\* the distance is closer to the ideal length, on the same side of it.
C10_Restoring ==
    (AllAtRest0 /\ ~Coincident0 /\ DistSq0 # IdealSq) =>
        /\ Solved =>
              \E onA \in {Dot(A1.fx, A1.fy, FSub(B0.x, A0.x), FSub(B0.y, A0.y))},
                 onB \in {Dot(B1.fx, B1.fy, FSub(A0.x, B0.x), FSub(A0.y, B0.y))} :
                 IF FLt(IdealSq, DistSq0)
                 THEN FLt(Zero, onA) /\ FLt(Zero, onB)
                 ELSE FLt(onA, Zero) /\ FLt(onB, Zero)
        /\ pc = "pair_done" =>
              \A d0 \in dist(A0, B0), d1 \in dist(A1, B1) :
                 IF FLt(IdealSq, DistSq0)
                 THEN FLt(d1, d0) /\ FLe(BOND_IDEAL_DIST, d1)
                 ELSE FLt(d0, d1) /\ FLe(d1, BOND_IDEAL_DIST)

\* a compressed pair at rest on a diagonal (0 < d < ideal, d irrational)
\* after solve_bond and both updates
C10_Witness ==
    /\ pc = "pair_done"
    /\ AllAtRest0
    /\ ~Coincident0
    /\ FLt(DistSq0, IdealSq)
    /\ ~FEq(A0.x, B0.x) /\ ~FEq(A0.y, B0.y)
    /\ \A d0 \in dist(A0, B0), d1 \in dist(A1, B1) : FLt(d0, d1)

====
